---------------------------- MODULE Spec2Model ----------------------------
(***************************************************************************)
(* A model of simonm3/maskmm: the Dataset adapter (maskr/datagen/dataset.py)*)
(* and the MaskRCNN model wrapper (maskmm/models/maskrcnn.py).              *)
(*                                                                         *)
(* Boxes are <<y1, x1, y2, x2>> in whole pixels of a 2 x 8 image.           *)
(*         Thresholds are rationals <<num, den>> so that every IoU          *)
(* comparison is exact integer arithmetic.  Collaborators that are not      *)
(* part of the two source files (the proposal generator, the detection      *)
(* filter, the target builders, batch.pad, the networks) are modelled       *)
(* from the design document; the networks' numeric outputs are inputs       *)
(* chosen from small sets.                                                  *)
(***************************************************************************)
EXTENDS Integers, Sequences, FiniteSets, TLC

(***************************************************************************)
(* Bounds of the model and configuration values (attributes of config).    *)
(***************************************************************************)
MaxBatch == 2                   \* images in one batch
PRE_NMS_LIMIT == 3              \* config.PRE_NMS_LIMIT
POST_NMS_ROIS_TRAINING == 2     \* config.POST_NMS_ROIS_TRAINING
POST_NMS_ROIS_INFERENCE == 3    \* config.POST_NMS_ROIS_INFERENCE
DETECTION_MAX_INSTANCES == 2    \* config.DETECTION_MAX_INSTANCES
TRAIN_ROIS_PER_IMAGE == 3       \* config.TRAIN_ROIS_PER_IMAGE
MaxPrinted == 1                 \* lines printed before the model stops
MaxClock == 2                   \* clock readings (datetime.now())
MaxObjects == 3                 \* instances load_mask returns for an image
MAX_GT_INSTANCES == 2           \* config.MAX_GT_INSTANCES
RPN_TRAIN_ANCHORS_PER_IMAGE == 2 \* config.RPN_TRAIN_ANCHORS_PER_IMAGE

RPN_POS_IOU == <<7, 10>>        \* positive anchor: IoU >= 0.7
RPN_NEG_IOU == <<3, 10>>        \* negative anchor: IoU <  0.3
RPN_NMS_THRESHOLD == <<7, 10>>
DETECTION_NMS_THRESHOLD == <<3, 10>>
DETECTION_MIN_CONFIDENCE == <<7, 10>>
ROI_POSITIVE_RATIO == <<1, 3>>
ROI_POSITIVE_IOU == <<1, 2>>

(***************************************************************************)
(* Anchor / box utilities.                                                 *)
(***************************************************************************)
ZeroBox == <<0, 0, 0, 0>>

Max2(a, b) == IF a >= b THEN a ELSE b
Min2(a, b) == IF a <= b THEN a ELSE b

BoxArea(b) == Max2(b[3] - b[1], 0) * Max2(b[4] - b[2], 0)

Intersection(a, b) ==
    Max2(Min2(a[3], b[3]) - Max2(a[1], b[1]), 0)
  * Max2(Min2(a[4], b[4]) - Max2(a[2], b[2]), 0)

Union(a, b) == BoxArea(a) + BoxArea(b) - Intersection(a, b)

\* IoU(a, b) > t and IoU(a, b) >= t for t = <<num, den>>; IoU of two empty
\* boxes is 0.
IoUAbove(a, b, t) ==
    Union(a, b) > 0 /\ Intersection(a, b) * t[2] > t[1] * Union(a, b)
IoUAtLeast(a, b, t) ==
    Union(a, b) > 0 /\ Intersection(a, b) * t[2] >= t[1] * Union(a, b)
\* IoU(a, b) > IoU(c, d)
IoUGreater(a, b, c, d) ==
    IF Union(a, b) = 0 THEN FALSE
    ELSE IF Union(c, d) = 0 THEN Intersection(a, b) > 0
    ELSE Intersection(a, b) * Union(c, d) > Intersection(c, d) * Union(a, b)

\* The pixels a box covers.
Pix(b) == {<<y, x>> : y \in b[1]..(b[3] - 1), x \in b[2]..(b[4] - 1)}

\* config.ANCHORS: fixed for the lifetime of a config.
ANCHORS == << <<0, 0, 2, 6>>, <<0, 1, 2, 7>>, <<0, 3, 2, 8>> >>
NumAnchors == Len(ANCHORS)

Range(s) == {s[k] : k \in 1..Len(s)}
Indices(s) == [k \in 1..Len(s) |-> k]
\* numpy fancy indexing: s[ix]
Take(s, ix) == [k \in 1..Len(ix) |-> s[ix[k]]]
\* the indices of the rows of a that differ from zero, ascending
\* (numpy any(...).nonzero()[0])
NonZero(a, zero) == SelectSeq(Indices(a), LAMBDA k : a[k].val # zero)
\* injective sequences of length n over 1..m (np.random.choice, replace=False)
Choices(m, n) == {c \in [1..n -> 1..m] : \A i, j \in 1..n : i # j => c[i] # c[j]}

(***************************************************************************)
(* State.                                                                  *)
(***************************************************************************)
VARIABLES
    cfg,        \* the config object's flags
    item,       \* the last Dataset call: its ground truth and what it returned
    mdl,        \* the MaskRCNN object
    env,        \* the file system, the clock and what was printed
    call,       \* the last call on the model, with its result
    dataset     \* the Dataset object's class and image registry

vars == <<cfg, item, mdl, env, call, dataset>>

(***************************************************************************)
(* Dataset (maskr/datagen/dataset.py).                                     *)
(* Every row of class_ids, bbox and mask carries, next to its value, the    *)
(* index src of the source object (its position in load_mask's result) it   *)
(* was computed from.                                                      *)
(***************************************************************************)
Row(s, v) == [src |-> s, val |-> v]
Vals(a) == [k \in 1..Len(a) |-> a[k].val]
Srcs(a) == [k \in 1..Len(a) |-> a[k].src]

FullImage == <<0, 0, 2, 8>>
TinyBox == <<1, 7, 2, 8>>
\* what a mask can look like after resizing (and augmentation)
MaskAfter == {Pix(ANCHORS[1]), Pix(TinyBox), {}}
\* a mini mask that kept some pixel
MiniPix == {<<0, 0>>}

\* load_mask of a dataset subclass: n instances, mask [h, w, n], class ids [n]
load_mask(n) ==
    [mask      |-> [k \in 1..n |-> Row(k, Pix(FullImage))],
     class_ids |-> [k \in 1..n |-> Row(k, k)]]

\* box_utils.extract_bboxes: the extent of the mask's pixels, zeros when empty
BBoxOf(p) ==
    IF p = {} THEN ZeroBox
    ELSE LET ys == {q[1] : q \in p}
             xs == {q[2] : q \in p}
             lo(S) == CHOOSE v \in S : \A u \in S : v <= u
             hi(S) == CHOOSE v \in S : \A u \in S : v >= u
         IN <<lo(ys), lo(xs), hi(ys) + 1, hi(xs) + 1>>
extract_bboxes(mask) == [k \in 1..Len(mask) |-> Row(mask[k].src, BBoxOf(mask[k].val))]

\* image_utils.resize_mask: instance k becomes rm[its source]
resize_mask(mask, rm) == [k \in 1..Len(mask) |-> Row(mask[k].src, rm[mask[k].src])]
\* image_utils.augment: the instances in ag leave the image
augment(mask, ag) ==
    [k \in 1..Len(mask) |-> Row(mask[k].src, IF mask[k].src \in ag THEN {} ELSE mask[k].val)]
\* image_utils.minimize_mask: the instances in mn lose every pixel
minimize_mask(mask, mn) ==
    [k \in 1..Len(mask) |-> Row(mask[k].src, IF mask[k].src \in mn THEN {} ELSE MiniPix)]

\* The second filter forgets to select the boxes.
load_image_gt_bboxStale(n, ids, rm, ag, mn, use_mini_mask, augmented) ==
    LET lm     == load_mask(n)
        many   == Len(lm.class_ids) > MAX_GT_INSTANCES
        class1 == IF many THEN Take(lm.class_ids, ids) ELSE lm.class_ids
        mask1  == IF many THEN Take(lm.mask, ids) ELSE lm.mask
        mask2  == resize_mask(mask1, rm)
        mask3  == IF augmented THEN augment(mask2, ag) ELSE mask2
        bbox3  == extract_bboxes(mask3)
        ix1    == NonZero(bbox3, ZeroBox)
        mask4  == Take(mask3, ix1)
        class4 == Take(class1, ix1)
        bbox4  == Take(bbox3, ix1)
        mask5  == IF use_mini_mask THEN minimize_mask(mask4, mn) ELSE mask4
        ix2    == NonZero(mask5, {})
    IN [class_ids |-> Take(class4, ix2), bbox |-> bbox4, mask |-> Take(mask5, ix2)]

\* Dataset.load_image_gt.  n: the instances of the image; ids: the random
\* subsample; rm, ag, mn: what resizing, augmentation and mini-masking do.
load_image_gt(n, ids, rm, ag, mn, use_mini_mask, augmented) ==
    LET lm     == load_mask(n)
        many   == Len(lm.class_ids) > MAX_GT_INSTANCES
        class1 == IF many THEN Take(lm.class_ids, ids) ELSE lm.class_ids
        mask1  == IF many THEN Take(lm.mask, ids) ELSE lm.mask
        mask2  == resize_mask(mask1, rm)
        mask3  == IF augmented THEN augment(mask2, ag) ELSE mask2
        bbox3  == extract_bboxes(mask3)
        \* remove any empty boxes
        ix1    == NonZero(bbox3, ZeroBox)
        mask4  == Take(mask3, ix1)
        class4 == Take(class1, ix1)
        bbox4  == Take(bbox3, ix1)
        mask5  == IF use_mini_mask THEN minimize_mask(mask4, mn) ELSE mask4
        \* remove any empty masks
        ix2    == NonZero(mask5, {})
    IN [class_ids |-> Take(class4, ix2), bbox |-> Take(bbox4, ix2), mask |-> Take(mask5, ix2)]

\* utils.batch.pad: zero rows appended up to n rows
pad(a, n, zero) == [k \in 1..Max2(Len(a), n) |-> IF k <= Len(a) THEN a[k] ELSE zero]

\* Box refinement of anchor a towards box g, as (dy, dx, dh, dw): twice the
\* centre offset and the size difference stand for the centre offset and
\* the log of the size ratio.
box_refinement(a, g) ==
    <<(g[1] + g[3]) - (a[1] + a[3]), (g[2] + g[4]) - (a[2] + a[4]),
      (g[3] - g[1]) - (a[3] - a[1]), (g[4] - g[2]) - (a[4] - a[2])>>

\* np.argmax over the anchors (rows) or over the boxes (columns): the first
\* index of the largest IoU
ArgMaxAnchor(anchors, g) ==
    CHOOSE a \in 1..Len(anchors) : \A b \in 1..Len(anchors) :
        /\ ~IoUGreater(anchors[b], g, anchors[a], g)
        /\ b < a => IoUGreater(anchors[a], g, anchors[b], g)
ArgMaxBox(anchor, boxes) ==
    CHOOSE g \in 1..Len(boxes) : \A h \in 1..Len(boxes) :
        /\ ~IoUGreater(anchor, boxes[h], anchor, boxes[g])
        /\ h < g => IoUGreater(anchor, boxes[g], anchor, boxes[h])

\* the k members of pool that the random order rnd puts first
FirstOf(pool, k, rnd) == {a \in pool : Cardinality({b \in pool : rnd[b] < rnd[a]}) < k}

\* The cap on positives draws from all positive anchors, forced ones included.
SubsamplePool_naive(pos, forced) == pos

\* The anchors the positive cap may reset to neutral: forced positives are
\* kept out of the pool.
SubsamplePool(pos, forced) == pos \ forced

\* datagen.rpn_targets.build_rpn_targets: rpn_match is 1 / 0 / -1 per anchor,
\* rpn_bbox the refinements of the positive anchors.  rnd: the random order
\* in which surplus anchors are dropped.
build_rpn_targets(anchors, gt_class_ids, gt_boxes, rnd) ==
    LET A       == 1..Len(anchors)
        G       == 1..Len(gt_boxes)
        quota   == RPN_TRAIN_ANCHORS_PER_IMAGE \div 2
        forced  == {ArgMaxAnchor(anchors, gt_boxes[g]) : g \in G}
        neg0    == {a \in A : \A g \in G : ~IoUAtLeast(anchors[a], gt_boxes[g], RPN_NEG_IOU)}
        pos0    == forced \cup
                   {a \in A : \E g \in G : IoUAtLeast(anchors[a], gt_boxes[g], RPN_POS_IOU)}
        extra   == Cardinality(pos0) - quota
        pos     == pos0 \ FirstOf(SubsamplePool(pos0, forced), Max2(extra, 0), rnd)
        neg1    == neg0 \ pos0
        surplus == Cardinality(neg1) - (RPN_TRAIN_ANCHORS_PER_IMAGE - Cardinality(pos))
        neg     == neg1 \ FirstOf(neg1, Max2(surplus, 0), rnd)
        posSeq  == SelectSeq(Indices(anchors), LAMBDA a : a \in pos)
        deltas  == [k \in 1..Len(posSeq) |->
                      box_refinement(anchors[posSeq[k]],
                                     gt_boxes[ArgMaxBox(anchors[posSeq[k]], gt_boxes)])]
    IN IF G = {}
       THEN [rpn_match |-> [a \in A |-> -1],
             rpn_bbox  |-> pad(<<>>, RPN_TRAIN_ANCHORS_PER_IMAGE, ZeroBox)]
       ELSE [rpn_match |-> [a \in A |-> IF a \in pos THEN 1 ELSE IF a \in neg THEN -1 ELSE 0],
             rpn_bbox  |-> pad(deltas, RPN_TRAIN_ANCHORS_PER_IMAGE, ZeroBox)]

\* gt_masks is returned as loaded, without the zero padding.
getitem_masksUnpadded(image_index, ids, rm, ag, mn, rnd) ==
    LET gt  == load_image_gt(image_index, ids, rm, ag, mn, cfg.USE_MINI_MASK, cfg.AUGMENT)
        rpn == build_rpn_targets(ANCHORS, Vals(gt.class_ids), Vals(gt.bbox), rnd)
    IN [gt  |-> gt,
        ret |-> << << <<"image", image_index>>, <<"meta", image_index>>,
                      rpn.rpn_match, rpn.rpn_bbox,
                      pad(Vals(gt.class_ids), MAX_GT_INSTANCES, 0),
                      pad(Vals(gt.bbox), MAX_GT_INSTANCES, ZeroBox),
                      Vals(gt.mask) >>, 0 >>]

\* Dataset.__getitem__: the record and the "y" fastai asks for.  Image i of
\* the dataset holds i instances.
getitem(image_index, ids, rm, ag, mn, rnd) ==
    LET gt  == load_image_gt(image_index, ids, rm, ag, mn, cfg.USE_MINI_MASK, cfg.AUGMENT)
        rpn == build_rpn_targets(ANCHORS, Vals(gt.class_ids), Vals(gt.bbox), rnd)
    IN [gt  |-> gt,
        ret |-> << << <<"image", image_index>>, <<"meta", image_index>>,
                      rpn.rpn_match, rpn.rpn_bbox,
                      pad(Vals(gt.class_ids), MAX_GT_INSTANCES, 0),
                      pad(Vals(gt.bbox), MAX_GT_INSTANCES, ZeroBox),
                      pad(Vals(gt.mask), MAX_GT_INSTANCES, {}) >>, 0 >>]

\* Dataset.__init__: background is always the first class.  A source is the
\* sequence of its characters, a class name the sequence of its
\* comma-separated parts.
BG == [source |-> <<>>, id |-> 0, name |-> <<"BG">>]
NewDataset ==
    [class_info |-> <<BG>>, image_info |-> <<>>, prepared |-> FALSE,
     num_classes |-> 0, class_names |-> <<>>, class_from_source_map |-> {},
     sources |-> {}, source_class_ids |-> {}]

NoItem == [op |-> "none"]
NoModel == [status |-> "none"]
NoEnv == [clock |-> 0, files |-> {}, dirs |-> {}, printed |-> <<>>]
NoCall == [op |-> "none"]

\* the random orders tried: anchors in order and in reverse
Orders == {Indices(ANCHORS), [a \in 1..NumAnchors |-> NumAnchors + 1 - a]}
\* the sets of instances one augmentation (one mini-masking) empties
AtMostOne(S) == {{}} \cup {{x} : x \in S}

\* dataset[image_index]
GetItem ==
    /\ item.op = "none"
    /\ \E n \in 0..MaxObjects, rnd \in Orders :
       \E ids \in (IF n > MAX_GT_INSTANCES THEN Choices(n, MAX_GT_INSTANCES) ELSE {<<>>}) :
         LET S == IF n > MAX_GT_INSTANCES THEN Range(ids) ELSE 1..n
         IN \E rm \in [S -> MaskAfter],
               ag \in (IF cfg.AUGMENT THEN AtMostOne(S) ELSE {{}}),
               mn \in (IF cfg.USE_MINI_MASK THEN AtMostOne(S) ELSE {{}}) :
              LET r == getitem(n, ids, rm, ag, mn, rnd)
              IN /\ item' = [op |-> "getitem", image_id |-> n, gt |-> r.gt, ret |-> r.ret]
                 /\ UNCHANGED <<cfg, mdl, env, call, dataset>>

\* the caller takes the result
ItemTaken ==
    /\ item.op # "none"
    /\ item' = NoItem
    /\ UNCHANGED <<cfg, mdl, env, call, dataset>>

InitData ==
    /\ cfg \in [USE_MINI_MASK : BOOLEAN, AUGMENT : BOOLEAN, HEAD : {TRUE}]
    /\ item = NoItem
    /\ mdl = NoModel
    /\ env = NoEnv
    /\ call = NoCall
    /\ dataset = NewDataset

NextData == GetItem \/ ItemTaken

SpecData == InitData /\ [][NextData]_vars

(***************************************************************************)
(* Claims about the Dataset, checked under SpecData.                       *)
(***************************************************************************)
IsZeroRow(rec, k) == rec[5][k] = 0 /\ rec[6][k] = ZeroBox /\ rec[7][k] = {}
IsRealRow(rec, k) == rec[5][k] # 0 /\ rec[6][k] # ZeroBox /\ rec[7][k] # {}

\* C1: for every image index __getitem__ yields one record (image,
\* image_meta, rpn_match, rpn_bbox, gt_class_ids, gt_boxes, gt_masks), in
\* this order, and gt_class_ids, gt_boxes and gt_masks have exactly
\* MAX_GT_INSTANCES rows: the image's instances first, zero rows after,
\* whatever the number of objects in the image.
C1_RecordIsPadded ==
    item.op = "getitem" =>
        LET rec == item.ret[1]
            n   == Len(item.gt.class_ids)
        IN /\ Len(rec) = 7
           /\ rec[1] = <<"image", item.image_id>>
           /\ rec[2] = <<"meta", item.image_id>>
           /\ DOMAIN rec[3] = 1..NumAnchors
           /\ \A a \in 1..NumAnchors : rec[3][a] \in {-1, 0, 1}
           /\ \A k \in 1..Len(rec[4]) : Len(rec[4][k]) = 4
           /\ Len(rec[5]) = MAX_GT_INSTANCES
           /\ Len(rec[6]) = MAX_GT_INSTANCES
           /\ Len(rec[7]) = MAX_GT_INSTANCES
           /\ n <= MAX_GT_INSTANCES
           /\ \A k \in 1..MAX_GT_INSTANCES :
                IF k <= n
                THEN /\ IsRealRow(rec, k)
                     /\ rec[5][k] = item.gt.class_ids[k].val
                     /\ rec[6][k] = item.gt.bbox[k].val
                     /\ rec[7][k] = item.gt.mask[k].val
                ELSE IsZeroRow(rec, k)

\* C1 witness: an image with more than MAX_GT_INSTANCES objects of which one
\* survives, so that the record holds a real row followed by zero rows.
C1_Witness ==
    /\ item.op = "getitem"
    /\ item.image_id > MAX_GT_INSTANCES
    /\ Len(item.gt.class_ids) = 1
    /\ IsRealRow(item.ret[1], 1)
    /\ IsZeroRow(item.ret[1], MAX_GT_INSTANCES)

\* C7: in the RPN targets of a dataset record, every ground-truth box has an
\* anchor labelled positive (an anchor that overlaps it best), also when no
\* anchor reaches the positive IoU threshold and also after the cap on the
\* number of positive anchors.
C7_ForcedPositiveKept ==
    item.op = "getitem" =>
        \A g \in 1..Len(item.gt.bbox) :
            \E a \in 1..NumAnchors :
                /\ item.ret[1][3][a] = 1
                /\ \A b \in 1..NumAnchors :
                       ~IoUGreater(ANCHORS[b], item.gt.bbox[g].val, ANCHORS[a], item.gt.bbox[g].val)

\* C7 witness: a ground-truth box that no anchor overlaps by the positive
\* threshold, in a record whose positives exceed the cap.
C7_Witness ==
    /\ item.op = "getitem"
    /\ \E g \in 1..Len(item.gt.bbox) :
           \A a \in 1..NumAnchors : ~IoUAtLeast(ANCHORS[a], item.gt.bbox[g].val, RPN_POS_IOU)
    /\ Cardinality({a \in 1..NumAnchors : item.ret[1][3][a] = 1}) > RPN_TRAIN_ANCHORS_PER_IMAGE \div 2

\* C10: load_image_gt returns class_ids, bbox and mask with the same number
\* N <= MAX_GT_INSTANCES of instances, entry k of each belongs to the same
\* source object, and no returned instance has an all-zero box or mask.
C10_GtAligned ==
    item.op = "getitem" =>
        LET gt == item.gt
            n  == Len(gt.class_ids)
        IN /\ Len(gt.bbox) = n
           /\ Len(gt.mask) = n
           /\ n <= MAX_GT_INSTANCES
           /\ \A k \in 1..n :
                /\ gt.class_ids[k].src = gt.mask[k].src
                /\ gt.bbox[k].src = gt.mask[k].src
                /\ gt.class_ids[k].src \in 1..item.image_id
                /\ gt.class_ids[k].val = load_mask(item.image_id).class_ids[gt.class_ids[k].src].val
                /\ gt.bbox[k].val # ZeroBox
                /\ gt.mask[k].val # {}
           /\ \A j, k \in 1..n : j # k => gt.mask[j].src # gt.mask[k].src

\* C10 witness: a subsampled image whose instances come back in another
\* order than load_mask gave them, once an empty mini mask was removed.
C10_Witness ==
    /\ item.op = "getitem"
    /\ item.image_id > MAX_GT_INSTANCES
    /\ cfg.USE_MINI_MASK
    /\ Len(item.gt.mask) = MAX_GT_INSTANCES - 1
    /\ Len(item.gt.mask) >= 1
    /\ item.gt.mask[1].src > 1

(***************************************************************************)
(* MaskRCNN (maskmm/models/maskrcnn.py): construction and weights.         *)
(***************************************************************************)
DOWNSCALE_STEPS == 6            \* h / 2 ** 6
MODEL_DIR == "logs"
NAME == "coco"

\* image heights and widths tried
Dims == {63, 64, 65, 128}

\* the model's parameters, and the values a parameter takes
ParamKeys == {"rpn.w", "mask.w"}
ParamVals == 0..2
FreshParams == [k \in ParamKeys |-> 0]

\* Weight file paths.  stamped: the path has the form
\* .../<name><yyyymmdd>T<hhmm>/mask_rcnn_<name>_<epoch>.pth that set_log_dir
\* reads the epoch from.
Paths ==
    {[name |-> "last.pth", stamped |-> FALSE, epoch |-> 0],
     [name |-> "coco20171029T2315/mask_rcnn_coco_0007.pth", stamped |-> TRUE, epoch |-> 7],
     [name |-> "partial.pth", stamped |-> FALSE, epoch |-> 0]}
NoPath == [name |-> "", stamped |-> FALSE, epoch |-> 0]
\* torch.load(filepath): the state dict a weight file holds
torch_load(path) ==
    IF path.name = "partial.pth" THEN [k \in {"rpn.w"} |-> 1]
    ELSE IF path.stamped THEN [k \in {"rpn.w", "mask.w", "extra.w"} |-> 2]
    ELSE [k \in ParamKeys |-> 1]
\* load_state_dict(state_dict, strict=False): the keys both have
load_state_dict(params, sd) ==
    [k \in ParamKeys |-> IF k \in DOMAIN sd THEN sd[k] ELSE params[k]]

\* int(x) of Python truncates towards zero
Trunc(a, b) == IF a >= 0 THEN a \div b ELSE -((-a) \div b)
\* n / 2 ** 6 != int(n / 2 ** 6)
Fractional(n) == n # (2 ^ DOWNSCALE_STEPS) * Trunc(n, 2 ^ DOWNSCALE_STEPS)

\* Only the height is tested.
SizeRejected_heightOnly(h, w) == Fractional(h)

\* the condition under which __init__ raises
SizeRejected(h, w) == Fractional(h) \/ Fractional(w)

\* MaskRCNN.set_log_dir(model_path) at clock reading now; model_path is a
\* member of Paths or NoPath for None.  Returns the fields it sets.
set_log_dir(model_path, now) ==
    [epoch    |-> IF model_path.name # "" /\ model_path.stamped THEN model_path.epoch ELSE 0,
     log_dir  |-> <<MODEL_DIR, NAME, now>>,
     checkpoint_path |-> <<MODEL_DIR, NAME, now, "mask_rcnn_coco_{:04d}.pth">>]

\* MaskRCNN(config, model_dir) with config.IMAGE_SHAPE = (h, w, 3)
Construct ==
    /\ mdl.status = "none"
    /\ \E h \in Dims, w \in Dims :
         LET ld == set_log_dir(NoPath, env.clock)
             m0 == [status |-> "failed", shape |-> <<h, w>>, training |-> TRUE,
                    epoch |-> ld.epoch, log_dir |-> ld.log_dir,
                    checkpoint_path |-> ld.checkpoint_path,
                    built |-> <<>>, params |-> FreshParams]
         IN /\ env' = [env EXCEPT !.dirs = @ \cup {ld.log_dir}]
            /\ IF SizeRejected(h, w)
               THEN /\ mdl' = m0
                    /\ call' = [op |-> "init", raised |-> TRUE]
               ELSE /\ mdl' = [m0 EXCEPT !.status = "built",
                                         !.built = <<"resnet", "fpn", "rpn", "classifier", "mask">>]
                    /\ call' = [op |-> "init", raised |-> FALSE]
    /\ UNCHANGED <<cfg, item, dataset>>

\* MaskRCNN.initialize_weights: every layer drawn again
InitializeWeights ==
    /\ mdl.status = "built"
    /\ \E p \in [ParamKeys -> ParamVals] : mdl' = [mdl EXCEPT !.params = p]
    /\ call' = [op |-> "initialize_weights", raised |-> FALSE]
    /\ UNCHANGED <<cfg, item, env, dataset>>

\* The state dict is loaded without asking whether the file exists:
\* torch.load raises on a missing file.
load_weights_noExistCheck(filepath) ==
    LET ld == set_log_dir(filepath, env.clock)
    IN IF filepath \in env.files
       THEN [mdl |-> [mdl EXCEPT !.params = load_state_dict(mdl.params, torch_load(filepath)),
                                 !.epoch = ld.epoch, !.log_dir = ld.log_dir,
                                 !.checkpoint_path = ld.checkpoint_path],
             env |-> [env EXCEPT !.dirs = @ \cup {ld.log_dir}],
             raised |-> FALSE]
       ELSE [mdl |-> mdl, env |-> env, raised |-> TRUE]

\* MaskRCNN.load_weights(filepath): the model and the environment after it
load_weights(filepath) ==
    LET exists == filepath \in env.files
        params == IF exists THEN load_state_dict(mdl.params, torch_load(filepath))
                  ELSE mdl.params
        out    == IF exists THEN env.printed
                  ELSE Append(env.printed, "Weight file not found ...")
        ld     == set_log_dir(filepath, env.clock)
    IN [mdl |-> [mdl EXCEPT !.params = params, !.epoch = ld.epoch,
                            !.log_dir = ld.log_dir,
                            !.checkpoint_path = ld.checkpoint_path],
        env |-> [env EXCEPT !.printed = out, !.dirs = @ \cup {ld.log_dir}],
        raised |-> FALSE]

LoadWeights ==
    /\ mdl.status = "built"
    /\ Len(env.printed) < MaxPrinted
    /\ \E filepath \in Paths :
         LET r == load_weights(filepath)
         IN /\ mdl' = r.mdl
            /\ env' = r.env
            /\ call' = [op |-> "load_weights", raised |-> r.raised, filepath |-> filepath,
                        existed |-> filepath \in env.files, before |-> mdl,
                        printed |-> env.printed, now |-> env.clock]
    /\ UNCHANGED <<cfg, item, dataset>>

\* time passes
Tick ==
    /\ env.clock < MaxClock
    /\ env' = [env EXCEPT !.clock = @ + 1]
    /\ UNCHANGED <<cfg, item, mdl, call, dataset>>

InitBuild ==
    /\ cfg = [USE_MINI_MASK |-> TRUE, AUGMENT |-> FALSE, HEAD |-> TRUE]
    /\ item = NoItem
    /\ mdl = NoModel
    /\ \E f \in SUBSET Paths : env = [NoEnv EXCEPT !.files = f]
    /\ call = NoCall
    /\ dataset = NewDataset

NextBuild == Construct \/ InitializeWeights \/ LoadWeights \/ Tick

SpecBuild == InitBuild /\ [][NextBuild]_vars

\* C2: constructing MaskRCNN raises exactly when the image height or width
\* is not an integer multiple of 2^6 = 64; a size that is not is never made
\* into a usable model, and no network component is built when the check
\* fails.
C2_RaisesIffNotDivisible ==
    mdl.status # "none" =>
        LET bad == mdl.shape[1] % 64 # 0 \/ mdl.shape[2] % 64 # 0
        IN /\ (mdl.status = "failed") = bad
           /\ bad => mdl.built = <<>>
           /\ ~bad => Len(mdl.built) = 5

\* C2 witness: a construction that failed on the width alone.
C2_Witness ==
    /\ mdl.status = "failed"
    /\ mdl.shape[1] % 64 = 0
    /\ mdl.shape[2] % 64 # 0
    /\ mdl.built = <<>>

\* C3: load_weights with a path that does not exist does not raise: it
\* reports the absence, leaves every parameter as it was and completes the
\* log-directory update; the state dict is loaded only when the file exists.
C3_MissingWeightsNotFatal ==
    call.op = "load_weights" =>
        /\ ~call.raised
        /\ mdl.status = "built"
        /\ mdl.log_dir = <<MODEL_DIR, NAME, call.now>>
        /\ mdl.log_dir \in env.dirs
        /\ mdl.epoch = (IF call.filepath.stamped THEN call.filepath.epoch ELSE 0)
        /\ IF call.existed
           THEN /\ mdl.params = load_state_dict(call.before.params, torch_load(call.filepath))
                /\ env.printed = call.printed
           ELSE /\ mdl.params = call.before.params
                /\ env.printed = Append(call.printed, "Weight file not found ...")

\* C3 witness: a missing file loaded into a model whose parameters differ
\* from what the file would have set, after the clock moved on.
C3_Witness ==
    /\ call.op = "load_weights"
    /\ ~call.existed
    /\ mdl.params # load_state_dict(mdl.params, torch_load(call.filepath))
    /\ mdl.log_dir # call.before.log_dir
    /\ Len(env.printed) = Len(call.printed) + 1

(***************************************************************************)
(* The filters MaskRCNN.forward calls.                                     *)
(***************************************************************************)
ZeroDelta == <<0, 0, 0, 0>>

\* box_utils.apply_box_deltas, the inverse of box_refinement
apply_box_deltas(b, d) ==
    LET cy == b[1] + b[3] + d[1]
        cx == b[2] + b[4] + d[2]
        h  == b[3] - b[1] + d[3]
        w  == b[4] - b[2] + d[4]
    IN <<(cy - h) \div 2, (cx - w) \div 2, (cy + h) \div 2, (cx + w) \div 2>>

\* box_utils.clip_to_window
clip_boxes(b, win) ==
    <<Max2(Min2(b[1], win[3]), win[1]), Max2(Min2(b[2], win[4]), win[2]),
      Max2(Min2(b[3], win[3]), win[1]), Max2(Min2(b[4], win[4]), win[2])>>

\* The indices ixs ordered by key, largest first; equal keys keep the order
\* they have in ixs (a stable sort).
SortDesc(ixs, key) ==
    LET n == Len(ixs)
        before(q, r) == key[ixs[q]] > key[ixs[r]] \/ (key[ixs[q]] = key[ixs[r]] /\ q < r)
        rank(r) == 1 + Cardinality({q \in 1..n : before(q, r)})
    IN [t \in 1..n |-> ixs[CHOOSE r \in 1..n : rank(r) = t]]

\* Greedy non-max suppression over boxes given best first: the positions
\* kept, at most limit of them.
RECURSIVE nms_keep(_, _, _, _, _)
nms_keep(boxes, k, kept, threshold, limit) ==
    IF k > Len(boxes) \/ Len(kept) >= limit THEN kept
    ELSE IF \E j \in Range(kept) : IoUAbove(boxes[j], boxes[k], threshold)
         THEN nms_keep(boxes, k + 1, kept, threshold, limit)
         ELSE nms_keep(boxes, k + 1, Append(kept, k), threshold, limit)
nms(boxes, threshold, limit) == nms_keep(boxes, 1, <<>>, threshold, limit)

\* filters.proposals, first step: the PRE_NMS_LIMIT best anchors by score
top_anchors(scores) ==
    LET sorted == SortDesc(Indices(scores), scores)
    IN SubSeq(sorted, 1, Min2(PRE_NMS_LIMIT, Len(scores)))
\* second step: the anchors refined by their deltas and clipped to the image
refined_anchors(top, deltas) ==
    [r \in 1..Len(top) |->
        clip_boxes(apply_box_deltas(ANCHORS[top[r]], deltas[top[r]]), FullImage)]
\* last step: non-max suppression, then zero padding to proposal_count rows
suppress_and_pad(boxes, proposal_count) ==
    pad(Take(boxes, nms(boxes, RPN_NMS_THRESHOLD, proposal_count)), proposal_count, ZeroBox)
\* filters.proposals for one image: scores and deltas per anchor in, exactly
\* proposal_count boxes out, zero padded.
proposals1(scores, deltas, proposal_count) ==
    suppress_and_pad(refined_anchors(top_anchors(scores), deltas), proposal_count)
proposals(rpn_class, rpn_bbox, proposal_count) ==
    [i \in 1..Len(rpn_class) |-> proposals1(rpn_class[i], rpn_bbox[i], proposal_count)]

\* filters.roialign: one feature block per region, in the regions' order,
\* cropped from the pyramid level that fits the region's size.
roialign(rois, feature_maps, pool_size) ==
    [i \in 1..Len(rois) |->
        [k \in 1..Len(rois[i]) |->
            [roi   |-> rois[i][k],
             level |-> feature_maps[IF BoxArea(rois[i][k]) >= 10 THEN Len(feature_maps) ELSE 1],
             pool  |-> pool_size,
             image |-> i]]]

\* the class of largest probability, background (index 1) left out
ArgMaxFg(probs) ==
    CHOOSE c \in 1..(Len(probs) - 1) : \A e \in 1..(Len(probs) - 1) :
        probs[e + 1] <= probs[c + 1] /\ (e < c => probs[e + 1] < probs[c + 1])

\* Non-max suppression over all classes at once.
SameGroup_anyClass(c, e) == TRUE

\* Two detections compete in non-max suppression when their classes agree.
SameGroup(c, e) == c = e

\* get_detections, first step: the real ROIs scored at least
\* DETECTION_MIN_CONFIDENCE, best first
confident_rois(rois, score) ==
    SortDesc(SelectSeq(Indices(rois), LAMBDA k :
                /\ rois[k] # ZeroBox
                /\ score[k] * DETECTION_MIN_CONFIDENCE[2] >= DETECTION_MIN_CONFIDENCE[1] * 100),
             score)
\* second step: k survives when no better kept detection of its group
\* overlaps it
RECURSIVE class_nms(_, _, _, _, _)
class_nms(sorted, cls, box, t, acc) ==
    IF t > Len(sorted) THEN acc
    ELSE IF \E j \in Range(acc) :
               /\ SameGroup(cls[j], cls[sorted[t]])
               /\ IoUAbove(box[j], box[sorted[t]], DETECTION_NMS_THRESHOLD)
         THEN class_nms(sorted, cls, box, t + 1, acc)
         ELSE class_nms(sorted, cls, box, t + 1, Append(acc, sorted[t]))
\* third step: the best DETECTION_MAX_INSTANCES
top_detections(kept) == SubSeq(kept, 1, Min2(DETECTION_MAX_INSTANCES, Len(kept)))
\* the detections top, boxes in the window's coordinates, and their ROIs
detections_of(top, rois, cls, score, box, window) ==
    [boxes     |-> [t \in 1..Len(top) |->
                         <<box[top[t]][1] - window[1], box[top[t]][2] - window[2],
                           box[top[t]][3] - window[1], box[top[t]][4] - window[2]>>],
     class_ids |-> [t \in 1..Len(top) |-> cls[top[t]]],
     scores    |-> [t \in 1..Len(top) |-> score[top[t]]],
     rois      |-> [t \in 1..Len(top) |-> rois[top[t]]]]

\* filters.detections.get_detections for one image.  Returns the kept
\* detections, best first, and the ROIs they came from.
get_detections1(rois, probs, deltas, window) ==
    LET cls   == [k \in 1..Len(rois) |-> ArgMaxFg(probs[k])]
        score == [k \in 1..Len(rois) |-> probs[k][ArgMaxFg(probs[k]) + 1]]
        box   == [k \in 1..Len(rois) |->
                    clip_boxes(apply_box_deltas(rois[k], deltas[k]), window)]
    IN detections_of(top_detections(class_nms(confident_rois(rois, score), cls, box, 1, <<>>)),
                     rois, cls, score, box, window)

\* field f of every image's result
PerImage(d, f) == [i \in 1..Len(d) |-> d[i][f]]
stack_detections(d) ==
    [boxes |-> PerImage(d, "boxes"), class_ids |-> PerImage(d, "class_ids"),
     scores |-> PerImage(d, "scores"), rois |-> PerImage(d, "rois")]
get_detections(rois, probs, deltas, image_metas) ==
    stack_detections([i \in 1..Len(rois) |->
                         get_detections1(rois[i], probs[i], deltas[i], image_metas[i])])

(***************************************************************************)
(* The networks.  An image is described by what the networks answer on it:  *)
(* sc and dl are the RPN's foreground score and box delta per anchor, cls   *)
(* names how the classifier head scores a region of the image, shape is the *)
(* image's size before resizing.                                           *)
(***************************************************************************)
AllEqual == <<2, 2, 2>>
MiddleBest == <<1, 2, 1>>
NoDeltas == <<ZeroDelta, ZeroDelta, ZeroDelta>>
MiddleNarrowed == <<ZeroDelta, <<0, -1, 0, -5>>, ZeroDelta>>
Image(sc, dl, cls, shape) == [sc |-> sc, dl |-> dl, cls |-> cls, shape |-> shape]

\* resnet.FPN: the pyramid levels, finest first
Levels == <<"P2", "P3", "P6">>
fpn(images) == [l \in 1..Len(Levels) |-> [level |-> Levels[l], images |-> images]]

\* rpn.RPN on the whole pyramid, concatenated over the levels: logits,
\* probabilities and box deltas per image and anchor
rpn_outputs(images) ==
    [rpn_class_logits |-> [i \in 1..Len(images) |-> <<"logits", images[i].img.sc>>],
     rpn_class        |-> [i \in 1..Len(images) |-> images[i].img.sc],
     rpn_bbox         |-> [i \in 1..Len(images) |-> images[i].img.dl]]

\* head.Classifier on one feature block of image img: class probabilities
\* <<background, class 1, class 2>> in percent and the box delta
Classifier(img, x) ==
    LET x1 == x.roi[2]
    IN CASE img.cls = "same" -> [probs |-> <<5, 90 - x1, 5>>, deltas |-> ZeroDelta]
         [] img.cls = "alt"  -> [probs |-> IF x1 = 0 THEN <<5, 90, 5>> ELSE <<5, 5, 90 - x1>>,
                                 deltas |-> ZeroDelta]
         [] img.cls = "low"  -> [probs |-> <<30, 60 + 10 * x1, 5>>, deltas |-> ZeroDelta]
         [] img.cls = "rev"  -> [probs |-> <<5, 80 + x1, 5>>, deltas |-> <<0, 2, 0, 0>>]
\* head.Mask on one feature block
Mask(img, x) == [mask_of |-> x.roi, pool |-> x.pool, level |-> x.level]

\* image_utils.resize_image: the window the image occupies after padding
resize_window(shape) ==
    LET left == (FullImage[4] - shape[2]) \div 2
    IN <<0, left, shape[1], left + shape[2]>>

\* The training count is used in evaluation mode and the inference count
\* in training mode.
proposal_count_swapped(training) ==
    IF training THEN POST_NMS_ROIS_INFERENCE ELSE POST_NMS_ROIS_TRAINING

\* forward: the number of proposals asked for
proposal_count(training) ==
    IF training THEN POST_NMS_ROIS_TRAINING ELSE POST_NMS_ROIS_INFERENCE

\* n of seq's members: the first n, or under the other random draw the last n
Pick(seq, n, rnd) ==
    LET m == Min2(Max2(n, 0), Len(seq))
    IN IF rnd = "first" THEN SubSeq(seq, 1, m) ELSE SubSeq(seq, Len(seq) - m + 1, Len(seq))

\* a proposal is positive when it overlaps a ground-truth box enough
head_positive(b, gt_boxes) ==
    \E g \in 1..Len(gt_boxes) :
        gt_boxes[g] # ZeroBox /\ IoUAtLeast(b, gt_boxes[g], ROI_POSITIVE_IOU)
\* the positives kept: at most ROI_POSITIVE_RATIO of TRAIN_ROIS_PER_IMAGE
sample_positives(props, gt_boxes, rnd) ==
    Pick(SelectSeq(Indices(props), LAMBDA k : head_positive(props[k], gt_boxes)),
         (TRAIN_ROIS_PER_IMAGE * ROI_POSITIVE_RATIO[1]) \div ROI_POSITIVE_RATIO[2], rnd)
\* negatives fill the remainder; without a positive no ROI is usable
sample_rois(props, posK, gt_boxes, rnd) ==
    IF Len(posK) = 0 THEN <<>>
    ELSE posK \o Pick(SelectSeq(Indices(props), LAMBDA k : ~head_positive(props[k], gt_boxes)),
                      TRAIN_ROIS_PER_IMAGE - Len(posK), rnd)
\* the targets of the sampled ROIs, padded to TRAIN_ROIS_PER_IMAGE
head_targets(props, rows, gt_class_ids, gt_boxes, gt_masks) ==
    [rois |-> pad(Take(props, rows), TRAIN_ROIS_PER_IMAGE, ZeroBox),
     target_class_ids |->
         pad([t \in 1..Len(rows) |->
                IF head_positive(props[rows[t]], gt_boxes)
                THEN gt_class_ids[ArgMaxBox(props[rows[t]], gt_boxes)] ELSE 0],
             TRAIN_ROIS_PER_IMAGE, 0),
     target_deltas |->
         pad([t \in 1..Len(rows) |->
                IF head_positive(props[rows[t]], gt_boxes)
                THEN box_refinement(props[rows[t]], gt_boxes[ArgMaxBox(props[rows[t]], gt_boxes)])
                ELSE ZeroDelta],
             TRAIN_ROIS_PER_IMAGE, ZeroDelta),
     target_mask |->
         pad([t \in 1..Len(rows) |->
                IF head_positive(props[rows[t]], gt_boxes)
                THEN gt_masks[ArgMaxBox(props[rows[t]], gt_boxes)] \cap Pix(props[rows[t]])
                ELSE {}],
             TRAIN_ROIS_PER_IMAGE, {}),
     usable |-> Len(rows)]
sample_and_target(props, gt_class_ids, gt_boxes, gt_masks, rnd) ==
    head_targets(props, sample_rois(props, sample_positives(props, gt_boxes, rnd), gt_boxes, rnd),
                 gt_class_ids, gt_boxes, gt_masks)

\* datagen.head_targets.build_head_targets for one image: padded proposals
\* and padded ground truth in; sampled ROIs and their targets out, padded to
\* TRAIN_ROIS_PER_IMAGE.  usable = 0 is the empty condition: no positive ROI.
build_head_targets1(rois, gt_class_ids, gt_boxes, gt_masks, rnd) ==
    sample_and_target(SelectSeq(rois, LAMBDA b : b # ZeroBox),
                      gt_class_ids, gt_boxes, gt_masks, rnd)

RECURSIVE Flatten(_)
Flatten(ss) == IF ss = <<>> THEN <<>> ELSE Head(ss) \o Flatten(Tail(ss))

\* rois are stacked per image, the targets concatenated over the batch
stack_targets(t) ==
    [rois             |-> PerImage(t, "rois"),
     target_class_ids |-> Flatten(PerImage(t, "target_class_ids")),
     target_deltas    |-> Flatten(PerImage(t, "target_deltas")),
     target_mask      |-> Flatten(PerImage(t, "target_mask")),
     usable           |-> PerImage(t, "usable")]
build_head_targets(rpn_rois, gt_class_ids, gt_boxes, gt_masks, rnd) ==
    stack_targets([i \in 1..Len(rpn_rois) |->
        build_head_targets1(rpn_rois[i], gt_class_ids[i], gt_boxes[i], gt_masks[i], rnd)])

(***************************************************************************)
(* MaskRCNN.forward and MaskRCNN.predict.  A call returns                   *)
(* [raised, ret, calls]: calls lists the stages invoked, in order, each     *)
(* with the ROIs it was given.                                             *)
(***************************************************************************)
Called(fn, arg) == [fn |-> fn, arg |-> arg]
Fns(calls) == [k \in 1..Len(calls) |-> calls[k].fn]

\* batch_slice()(self.classifier)(x) and batch_slice()(self.mask)(x)
classifier(images, x) ==
    [i \in 1..Len(x) |-> [k \in 1..Len(x[i]) |-> Classifier(images[i].img, x[i][k])]]
mask(images, x) ==
    [i \in 1..Len(x) |-> [k \in 1..Len(x[i]) |-> Mask(images[i].img, x[i][k])]]
Field(o, f) == [i \in 1..Len(o) |-> [k \in 1..Len(o[i]) |-> o[i][k][f]]]

\* The mask head is given the proposals, not the detections' ROIs.
masks_for_detections_maskAll(images, heads, rois, det, calls) ==
    [raised |-> FALSE,
     ret    |-> <<det.boxes, det.class_ids, det.scores,
                  mask(images, roialign(rois, heads, "MASK_POOL_SIZE"))>>,
     usable |-> <<>>,
     calls  |-> calls \o <<Called("roialign", rois), Called("classifier", rois),
                           Called("get_detections", rois),
                           Called("roialign", rois), Called("mask", rois)>>]

\* forward, lines 148-152: masks for the boxes the detection filter selected
masks_for_detections(images, heads, rois, det, calls) ==
    [raised |-> FALSE,
     ret    |-> <<det.boxes, det.class_ids, det.scores,
                  mask(images, roialign(det.rois, heads, "MASK_POOL_SIZE"))>>,
     usable |-> <<>>,
     calls  |-> calls \o <<Called("roialign", rois), Called("classifier", rois),
                           Called("get_detections", rois),
                           Called("roialign", det.rois), Called("mask", det.rois)>>]

\* forward, lines 146: the detection filter on the classifier's outputs c
detect(images, image_metas, heads, rois, c, calls) ==
    masks_for_detections(images, heads, rois,
        get_detections(rois, Field(c, "probs"), Field(c, "deltas"), image_metas), calls)

\* forward with two inputs, config.HEAD set: lines 126-131 and 142-152
forward_inference(images, image_metas, heads, rpn_rois, calls) ==
    detect(images, image_metas, heads, rpn_rois,
           classifier(images, roialign(rpn_rois, heads, "POOL_SIZE")), calls)

\* forward, lines 129-141: both heads on the ROIs of the head targets t
heads_on_targets(inputs, heads, r, rpn_rois, t, calls) ==
    [raised |-> FALSE,
     ret    |-> [out |-> <<inputs[3], inputs[4], r.rpn_class_logits, r.rpn_bbox,
                           t.target_class_ids, t.target_deltas, t.target_mask,
                           Field(classifier(inputs[1], roialign(t.rois, heads, "POOL_SIZE")),
                                 "probs"),
                           Field(classifier(inputs[1], roialign(t.rois, heads, "POOL_SIZE")),
                                 "deltas"),
                           mask(inputs[1], roialign(t.rois, heads, "MASK_POOL_SIZE"))>>],
     usable |-> t.usable,
     calls  |-> calls \o <<Called("build_head_targets", rpn_rois),
                           Called("roialign", t.rois), Called("classifier", t.rois),
                           Called("roialign", t.rois), Called("mask", t.rois)>>]

\* forward with seven inputs, config.HEAD set: lines 118-125 and 129-141
forward_training(inputs, heads, r, rpn_rois, calls, rnd) ==
    heads_on_targets(inputs, heads, r, rpn_rois,
        build_head_targets(rpn_rois, inputs[5], inputs[6], inputs[7], rnd), calls)

\* config.HEAD is not consulted: the head stages always run.
after_proposals_headAlways(training, head, inputs, feature_maps, r, rpn_rois, calls, rnd) ==
    IF Len(inputs) > 2
    THEN forward_training(inputs, SubSeq(feature_maps, 1, Len(feature_maps) - 1), r,
                          rpn_rois, Append(calls, Called("proposals", rpn_rois)), rnd)
    ELSE forward_inference(inputs[1], inputs[2],
                           SubSeq(feature_maps, 1, Len(feature_maps) - 1),
                           rpn_rois, Append(calls, Called("proposals", rpn_rois)))

\* forward, lines 109-152, once the proposals rpn_rois are made
after_proposals(training, head, inputs, feature_maps, r, rpn_rois, calls, rnd) ==
    IF ~head
    THEN IF Len(inputs) > 2
         THEN [raised |-> FALSE,
               ret    |-> [out |-> <<inputs[3], inputs[4], r.rpn_class_logits, r.rpn_bbox,
                                     0, 0, 0, 0, 0, 0>>],
               usable |-> <<>>,
               calls  |-> Append(calls, Called("proposals", rpn_rois))]
         \* tgt_rpn_match is bound only when there are targets
         ELSE [raised |-> TRUE, ret |-> "UnboundLocalError", usable |-> <<>>,
               calls |-> Append(calls, Called("proposals", rpn_rois))]
    ELSE IF Len(inputs) > 2
         THEN forward_training(inputs, SubSeq(feature_maps, 1, Len(feature_maps) - 1), r,
                               rpn_rois, Append(calls, Called("proposals", rpn_rois)), rnd)
         ELSE forward_inference(inputs[1], inputs[2],
                                SubSeq(feature_maps, 1, Len(feature_maps) - 1),
                                rpn_rois, Append(calls, Called("proposals", rpn_rois)))

\* forward, lines 86-107, on the pyramid feature_maps and the RPN outputs r
make_proposals(training, head, inputs, feature_maps, r, rnd) ==
    after_proposals(training, head, inputs, feature_maps, r,
        proposals(r.rpn_class, r.rpn_bbox, proposal_count(training)),
        <<Called("fpn", <<>>)>>
            \o [l \in 1..Len(feature_maps) |-> Called("rpn", feature_maps[l].level)],
        rnd)

\* MaskRCNN.forward on inputs, of a model in mode training with config.HEAD =
\* head; rnd is the random draw of the head target builder.
forward(training, head, inputs, rnd) ==
    make_proposals(training, head, inputs, fpn(inputs[1]), rpn_outputs(inputs[1]), rnd)

\* image_utils.unmold_detections of one image
unmold_detections(boxes, class_ids, scores, masks, image_shape, image_meta) ==
    [rois |-> boxes, class_ids |-> class_ids, scores |-> scores, masks |-> masks,
     shape |-> image_shape, window |-> image_meta]

\* predict, lines 178-183: one result per image
predict_results(images, out, image_shapes, image_metas) ==
    [i \in 1..Len(images) |->
        unmold_detections(out[1][i], out[2][i], out[3][i], out[4][i],
                          image_shapes[i], image_metas[i])]

\* predict, lines 174-183, f being what forward did
predict_outputs(images, image_shapes, image_metas, f) ==
    IF f.raised
    THEN [raised |-> TRUE, ret |-> f.ret, images |-> images, forward |-> f]
    ELSE [raised |-> FALSE,
          ret |-> predict_results(images, f.ret, image_shapes, image_metas),
          images |-> images, forward |-> f]

\* predict, lines 160-176, on the list images
predict_list(training, head, images) ==
    LET image_shapes == [i \in 1..Len(images) |-> images[i].shape]
        molded       == [i \in 1..Len(images) |-> [img |-> images[i]]]
        image_metas  == [i \in 1..Len(images) |-> resize_window(images[i].shape)]
    IN IF Len(images) = 0
       \* torch.stack of an empty list
       THEN [raised |-> TRUE, ret |-> "RuntimeError", images |-> images, forward |-> NoCall]
       ELSE predict_outputs(images, image_shapes, image_metas,
                            forward(training, head, <<molded, image_metas>>, "first"))

\* MaskRCNN.predict(images); input.list tells whether images is a list
predict(training, head, input) ==
    predict_list(training, head, IF input.list THEN input.v ELSE <<input.v>>)

\* the images given to predict
Images ==
    {Image(AllEqual, NoDeltas, "same", <<2, 8>>),
     Image(AllEqual, NoDeltas, "alt", <<2, 8>>),
     Image(AllEqual, NoDeltas, "rev", <<2, 8>>),
     Image(MiddleBest, NoDeltas, "same", <<2, 6>>),
     Image(MiddleBest, MiddleNarrowed, "low", <<2, 6>>),
     Image(MiddleBest, MiddleNarrowed, "alt", <<2, 8>>)}
Batches == UNION {[1..n -> Images] : n \in 0..MaxBatch}

BuiltModel ==
    [status |-> "built", shape |-> <<64, 64>>, training |-> TRUE, epoch |-> 0,
     log_dir |-> <<MODEL_DIR, NAME, 0>>,
     checkpoint_path |-> <<MODEL_DIR, NAME, 0, "mask_rcnn_coco_{:04d}.pth">>,
     built |-> <<"resnet", "fpn", "rpn", "classifier", "mask">>, params |-> FreshParams]

\* the call as the caller sees it
PredictCalled(input, r) ==
    call' = [op |-> "predict", training |-> mdl.training, list |-> input.list,
             raised |-> r.raised, ret |-> r.ret, images |-> r.images,
             forward |-> r.forward]
\* the effect of model.predict(input.v)
DoPredict(input) == PredictCalled(input, predict(mdl.training, cfg.HEAD, input))

\* model.predict(images), images a list of images or one bare image
Predict ==
    /\ call.op = "none"
    /\ \/ \E b \in Batches : DoPredict([list |-> TRUE, v |-> b])
       \/ \E i \in Images : DoPredict([list |-> FALSE, v |-> i])
    /\ UNCHANGED <<cfg, item, mdl, env, dataset>>

\* nn.Module.train(mode)
SetTraining ==
    /\ call.op = "none"
    /\ mdl' = [mdl EXCEPT !.training = ~@]
    /\ UNCHANGED <<cfg, item, env, call, dataset>>

\* the caller takes the result
Returned ==
    /\ call.op # "none"
    /\ call' = NoCall
    /\ UNCHANGED <<cfg, item, mdl, env, dataset>>

InitInfer ==
    /\ cfg \in [USE_MINI_MASK : {TRUE}, AUGMENT : {FALSE}, HEAD : BOOLEAN]
    /\ item = NoItem
    /\ mdl = BuiltModel
    /\ env = NoEnv
    /\ call = NoCall
    /\ dataset = NewDataset

NextInfer == Predict \/ SetTraining \/ Returned

SpecInfer == InitInfer /\ [][NextInfer]_vars

(***************************************************************************)
(* Training: forward on a batch collated from Dataset items.               *)
(***************************************************************************)
GtCases == {<<>>, <<1>>, <<2>>, <<1, 2>>}
GtBox(c) == IF c = 1 THEN ANCHORS[2] ELSE TinyBox
TrainImages ==
    {Image(AllEqual, NoDeltas, "same", <<2, 8>>),
     Image(MiddleBest, MiddleNarrowed, "same", <<2, 8>>)}

\* one Dataset item: the image and its ground truth padded to MAX_GT_INSTANCES
TrainItem(img, gt) ==
    [image        |-> [img |-> img],
     meta         |-> resize_window(img.shape),
     rpn_match    |-> <<"rpn_match", gt>>,
     rpn_bbox     |-> <<"rpn_bbox", gt>>,
     gt_class_ids |-> pad(gt, MAX_GT_INSTANCES, 0),
     gt_boxes     |-> pad([g \in 1..Len(gt) |-> GtBox(gt[g])], MAX_GT_INSTANCES, ZeroBox),
     gt_masks     |-> pad([g \in 1..Len(gt) |-> Pix(GtBox(gt[g]))], MAX_GT_INSTANCES, {})]
TrainItems == {TrainItem(img, gt) : img \in TrainImages, gt \in GtCases}
TrainBatches == UNION {[1..n -> TrainItems] : n \in 1..MaxBatch}

\* the DataLoader's collation: one stacked input per field
collate(b) ==
    <<[i \in 1..Len(b) |-> b[i].image], [i \in 1..Len(b) |-> b[i].meta],
      [i \in 1..Len(b) |-> b[i].rpn_match], [i \in 1..Len(b) |-> b[i].rpn_bbox],
      [i \in 1..Len(b) |-> b[i].gt_class_ids], [i \in 1..Len(b) |-> b[i].gt_boxes],
      [i \in 1..Len(b) |-> b[i].gt_masks]>>

\* the call as the caller sees it
ForwardCalled(inputs, f) ==
    call' = [op |-> "forward", training |-> mdl.training, inputs |-> inputs,
             raised |-> f.raised, ret |-> f.ret, calls |-> f.calls,
             usable |-> f.usable]

\* the model called on a batch with the seven training inputs
Forward ==
    /\ call.op = "none"
    /\ \E b \in TrainBatches, rnd \in {"first", "last"} :
         ForwardCalled(collate(b), forward(mdl.training, cfg.HEAD, collate(b), rnd))
    /\ UNCHANGED <<cfg, item, mdl, env, dataset>>

NextTrain == Forward \/ SetTraining \/ Returned

SpecTrain == InitInfer /\ [][NextTrain]_vars

\* the proposals forward obtained, per image
ProposalsOf(f) == f.calls[Len(Levels) + 2].arg
\* the regions forward gave to the stage called last
LastArg(f) == f.calls[Len(f.calls)].arg
\* the detection box of a region of image img, in the window's coordinates
Refined(img, roi, window) ==
    LET c == Classifier(img, [roi |-> roi])
        b == clip_boxes(apply_box_deltas(roi, c.deltas), window)
    IN <<b[1] - window[1], b[2] - window[2], b[3] - window[1], b[4] - window[2]>>
ClassOf(img, roi) == ArgMaxFg(Classifier(img, [roi |-> roi]).probs)
ScoreOf(img, roi) == Classifier(img, [roi |-> roi]).probs[ClassOf(img, roi) + 1]
Confident(img, roi) ==
    ScoreOf(img, roi) * DETECTION_MIN_CONFIDENCE[2] >= DETECTION_MIN_CONFIDENCE[1] * 100

\* C4: when the head target builder yields zero usable ROIs for an image,
\* forward does not fail and skips the classifier and the mask head for that
\* image: neither head is given a region of it.
C4_EmptyImageSkipsHeads ==
    (call.op = "forward" /\ cfg.HEAD) =>
        /\ ~call.raised
        /\ \A i \in 1..Len(call.usable) : call.usable[i] = 0 =>
              \A k \in 1..Len(call.calls) :
                  call.calls[k].fn \in {"classifier", "mask"} => call.calls[k].arg[i] = <<>>

\* C5: with two inputs forward runs proposals, ROI align, classifier,
\* detection filter, ROI align, mask head in that order; the mask head is
\* given exactly the ROIs the detection filter returned, so mask t of an
\* image belongs to box t, class id t and score t of that image.
C5_MaskOnDetectionsOnly ==
    (call.op = "predict" /\ ~call.raised) =>
        LET f == call.forward
            n == Len(f.calls)
        IN /\ SubSeq(Fns(f.calls), n - 5, n) =
                <<"proposals", "roialign", "classifier", "get_detections", "roialign", "mask">>
           /\ f.calls[n - 4].arg = ProposalsOf(f)
           /\ f.calls[n - 3].arg = ProposalsOf(f)
           /\ f.calls[n - 2].arg = ProposalsOf(f)
           /\ f.calls[n - 1].arg = LastArg(f)
           /\ \A i \in 1..Len(call.images) :
                LET img == call.images[i]
                    win == resize_window(img.shape)
                IN /\ Len(f.ret[4][i]) = Len(f.ret[1][i])
                   /\ Len(f.ret[4][i]) = Len(f.ret[2][i])
                   /\ Len(f.ret[4][i]) = Len(f.ret[3][i])
                   /\ Len(f.ret[4][i]) = Len(LastArg(f)[i])
                   /\ \A t \in 1..Len(f.ret[4][i]) :
                        LET roi == f.ret[4][i][t].mask_of
                        IN /\ roi = LastArg(f)[i][t]
                           /\ roi \in Range(ProposalsOf(f)[i])
                           /\ f.ret[1][i][t] = Refined(img, roi, win)
                           /\ f.ret[2][i][t] = ClassOf(img, roi)
                           /\ f.ret[3][i][t] = ScoreOf(img, roi)

\* C5 witness: a prediction in which the detection filter returned some but
\* not all of an image's proposals, and not in the proposals' order.
C5_Witness ==
    /\ call.op = "predict" /\ ~call.raised
    /\ \E i \in 1..Len(call.images) :
         /\ Len(call.forward.ret[4][i]) >= 1
         /\ Len(call.forward.ret[4][i]) < Len(ProposalsOf(call.forward)[i])
         /\ call.forward.ret[4][i][1].mask_of # ProposalsOf(call.forward)[i][1]

\* C6: for every image of the batch the proposal generator called from
\* forward returns exactly proposal_count rows, POST_NMS_ROIS_TRAINING in
\* training mode and POST_NMS_ROIS_INFERENCE otherwise; the rows that are not
\* real boxes are zero boxes, and no two real boxes have IoU above the
\* suppression threshold.
C6_ProposalsPadded ==
    (call.op = "predict" /\ Len(call.images) > 0) =>
        LET p == ProposalsOf(call.forward)
            count == IF call.training THEN POST_NMS_ROIS_TRAINING ELSE POST_NMS_ROIS_INFERENCE
        IN /\ Len(p) = Len(call.images)
           /\ \A i \in 1..Len(p) :
                /\ Len(p[i]) = count
                /\ \A s, t \in 1..Len(p[i]) :
                     (s # t /\ p[i][s] # ZeroBox /\ p[i][t] # ZeroBox) =>
                         ~IoUAbove(p[i][s], p[i][t], RPN_NMS_THRESHOLD)
                /\ \A s \in 1..Len(p[i]) :
                     p[i][s] # ZeroBox => BoxArea(p[i][s]) > 0

\* C6 witness: a batch of two images in evaluation mode, one with an anchor
\* suppressed and its row zero padded, the other with every row a real box.
C6_Witness ==
    /\ call.op = "predict" /\ ~call.training /\ Len(call.images) = 2
    /\ \E i, j \in 1..2 :
         /\ ZeroBox \in Range(ProposalsOf(call.forward)[i])
         /\ ZeroBox \notin Range(ProposalsOf(call.forward)[j])
         /\ Len(ProposalsOf(call.forward)[j]) = POST_NMS_ROIS_INFERENCE

\* C8: for every image the detections returned by the detection filter are
\* at most DETECTION_MAX_INSTANCES, none comes from a padding ROI, no two of
\* the same class have IoU above DETECTION_NMS_THRESHOLD, and a confident
\* real ROI is left out only because a returned detection of its own class
\* overlaps it or because the maximum is reached: never because of a
\* detection of another class.
C8_PerClassSuppression ==
    (call.op = "predict" /\ ~call.raised) =>
        LET f == call.forward
        IN \A i \in 1..Len(call.images) :
             LET img  == call.images[i]
                 win  == resize_window(img.shape)
                 b    == f.ret[1][i]
                 c    == f.ret[2][i]
                 rois == LastArg(f)[i]
             IN /\ Len(b) <= DETECTION_MAX_INSTANCES
                /\ \A t \in 1..Len(rois) : rois[t] # ZeroBox
                /\ \A s, t \in 1..Len(b) :
                     (s # t /\ c[s] = c[t]) => ~IoUAbove(b[s], b[t], DETECTION_NMS_THRESHOLD)
                /\ \A roi \in Range(ProposalsOf(f)[i]) :
                     (roi # ZeroBox /\ Confident(img, roi) /\ roi \notin Range(rois)) =>
                        \/ Len(b) = DETECTION_MAX_INSTANCES
                        \/ \E t \in 1..Len(b) :
                             /\ c[t] = ClassOf(img, roi)
                             /\ IoUAbove(b[t], Refined(img, roi, win), DETECTION_NMS_THRESHOLD)

\* C8 witness: an image whose two returned detections are of different
\* classes and overlap above the threshold, and whose proposals hold a
\* padding row the classifier scores confidently.
C8_Witness ==
    /\ call.op = "predict" /\ ~call.raised
    /\ \E i \in 1..Len(call.images) :
         /\ Len(call.forward.ret[1][i]) = 2
         /\ call.forward.ret[2][i][1] # call.forward.ret[2][i][2]
         /\ IoUAbove(call.forward.ret[1][i][1], call.forward.ret[1][i][2],
                     DETECTION_NMS_THRESHOLD)
         /\ ZeroBox \in Range(ProposalsOf(call.forward)[i])
         /\ Confident(call.images[i], ZeroBox)

\* C9: predict returns one result per input image, in the images' order,
\* result i made of image i's boxes, class ids, scores, masks, shape and
\* window only; a bare image is treated as a batch of one.
C9_OneResultPerImage ==
    call.op = "predict" =>
        /\ ~call.raised
        /\ ~call.list => Len(call.images) = 1
        /\ Len(call.ret) = Len(call.images)
        /\ \A i \in 1..Len(call.images) :
             /\ call.ret[i].shape = call.images[i].shape
             /\ call.ret[i].window = resize_window(call.images[i].shape)
             /\ call.ret[i].rois = call.forward.ret[1][i]
             /\ call.ret[i].class_ids = call.forward.ret[2][i]
             /\ call.ret[i].scores = call.forward.ret[3][i]
             /\ call.ret[i].masks = call.forward.ret[4][i]

(***************************************************************************)
(* The class registry of Dataset: add_class and prepare.                   *)
(***************************************************************************)
MaxClasses == 3                 \* classes registered besides the background
ClassSources == {<<>>, <<"c">>, <<"s">>, <<"a", ".", "b">>}
ClassIds == {0, 1}
ClassNames == {<<"cat">>, <<"dog", "hound">>}

\* info['source'] == source and info["id"] == class_id, for some info
Registered(class_info, source, class_id) ==
    \E k \in 1..Len(class_info) :
        class_info[k].source = source /\ class_info[k].id = class_id

\* The class is appended whether or not it is registered already.
add_class_noSkip(class_info, source, class_id, class_name) ==
    IF "." \in Range(source)
    THEN [raised |-> TRUE, class_info |-> class_info]
    ELSE [raised |-> FALSE,
          class_info |-> Append(class_info,
                                [source |-> source, id |-> class_id, name |-> class_name])]

\* Dataset.add_class on the registry class_info
add_class(class_info, source, class_id, class_name) ==
    IF "." \in Range(source)
    \* assert "." not in source
    THEN [raised |-> TRUE, class_info |-> class_info]
    ELSE IF Registered(class_info, source, class_id)
    THEN [raised |-> FALSE, class_info |-> class_info]
    ELSE [raised |-> FALSE,
          class_info |-> Append(class_info,
                                [source |-> source, id |-> class_id, name |-> class_name])]

\* prepare's clean_name: the part of the name before the first comma
clean_name(name) == SubSeq(name, 1, 1)

\* the last internal class id registered under a "source.id" key
LastIndexOf(class_info, key) ==
    CHOOSE i \in 0..(Len(class_info) - 1) :
        /\ <<class_info[i + 1].source, class_info[i + 1].id>> = key
        /\ \A j \in 0..(Len(class_info) - 1) :
             <<class_info[j + 1].source, class_info[j + 1].id>> = key => j <= i

\* Dataset.prepare: everything else rebuilt from the info lists
prepare(d) ==
    [class_info  |-> d.class_info,
     image_info  |-> d.image_info,
     prepared    |-> TRUE,
     num_classes |-> Len(d.class_info),
     class_names |-> [k \in 1..Len(d.class_info) |-> clean_name(d.class_info[k].name)],
     class_from_source_map |->
         {<<key, LastIndexOf(d.class_info, key)>> :
             key \in {<<d.class_info[k].source, d.class_info[k].id>> :
                         k \in 1..Len(d.class_info)}},
     sources |-> {d.class_info[k].source : k \in 1..Len(d.class_info)},
     source_class_ids |->
         {<<source, SelectSeq([i \in 1..Len(d.class_info) |-> i - 1],
                              LAMBDA i : i = 0 \/ source = d.class_info[i + 1].source)>> :
             source \in {d.class_info[k].source : k \in 1..Len(d.class_info)}}]

\* dataset.add_class(source, class_id, class_name)
AddClass ==
    /\ Len(dataset.class_info) <= MaxClasses
    /\ \E source \in ClassSources, class_id \in ClassIds, class_name \in ClassNames :
         /\ dataset' = [dataset EXCEPT !.class_info =
                           add_class(dataset.class_info, source, class_id, class_name).class_info]
         /\ item' = [op |-> "add_class", source |-> source, id |-> class_id,
                     name |-> class_name, before |-> dataset.class_info,
                     raised |-> add_class(dataset.class_info, source, class_id,
                                          class_name).raised]
    /\ UNCHANGED <<cfg, mdl, env, call>>

\* dataset.prepare()
Prepare ==
    /\ dataset' = prepare(dataset)
    /\ item' = [op |-> "prepare"]
    /\ UNCHANGED <<cfg, mdl, env, call>>

InitClasses ==
    /\ cfg = [USE_MINI_MASK |-> TRUE, AUGMENT |-> FALSE, HEAD |-> TRUE]
    /\ item = NoItem
    /\ mdl = NoModel
    /\ env = NoEnv
    /\ call = NoCall
    /\ dataset = NewDataset

NextClasses == AddClass \/ Prepare

SpecClasses == InitClasses /\ [][NextClasses]_vars

\* C11: after any sequence of add_class calls class_info[0] is the
\* background class and no two entries share a (source, id) pair; an
\* add_class of a registered pair leaves class_info as it was and any other
\* only appends, so entries are never reordered, renamed or removed; after
\* prepare the class list of every source contains index 0.
C11_ClassRegistry ==
    /\ dataset.class_info[1] = BG
    /\ \A j, k \in 1..Len(dataset.class_info) :
         (dataset.class_info[j].source = dataset.class_info[k].source
            /\ dataset.class_info[j].id = dataset.class_info[k].id) => j = k
    /\ item.op = "add_class" =>
         IF item.raised \/ Registered(item.before, item.source, item.id)
         THEN dataset.class_info = item.before
         ELSE dataset.class_info =
                 Append(item.before, [source |-> item.source, id |-> item.id, name |-> item.name])
    /\ dataset.prepared =>
         /\ \A e \in dataset.source_class_ids : 0 \in Range(e[2])
         /\ {e[1] : e \in dataset.source_class_ids} = dataset.sources
    /\ item.op = "prepare" =>
         /\ dataset.prepared
         /\ dataset.sources =
               {dataset.class_info[k].source : k \in 1..Len(dataset.class_info)}

\* C11 witness: after a prepare, a class registered already, and not the
\* background, is added again under another name.
C11_Witness ==
    /\ item.op = "add_class" /\ ~item.raised /\ dataset.prepared
    /\ \E k \in 2..Len(item.before) :
         /\ item.before[k].source = item.source
         /\ item.before[k].id = item.id
         /\ item.before[k].name # item.name
    /\ Cardinality(dataset.sources) >= 2

\* C12: with config.HEAD false, forward stops after the proposal stage: no
\* head target builder, ROI alignment, classifier, mask head or detection
\* filter is invoked, and a call with the seven training inputs returns ten
\* outputs: the two input RPN targets unchanged, the RPN class logits, the
\* RPN box deltas, and six entries 0.  With config.HEAD true the first four
\* outputs are the same four.
C12_RpnOnlyOutput ==
    call.op = "forward" =>
        /\ ~call.raised
        /\ Len(call.ret.out) = 10
        /\ call.ret.out[1] = call.inputs[3]
        /\ call.ret.out[2] = call.inputs[4]
        /\ call.ret.out[3] = rpn_outputs(call.inputs[1]).rpn_class_logits
        /\ call.ret.out[4] = rpn_outputs(call.inputs[1]).rpn_bbox
        /\ ~cfg.HEAD =>
             /\ Range(Fns(call.calls)) = {"fpn", "rpn", "proposals"}
             /\ call.calls[Len(call.calls)].fn = "proposals"
             /\ \A k \in 5..10 : call.ret.out[k] = 0

\* C12 witness: config.HEAD false and a batch of two images with different
\* RPN targets, one of them with ground truth a proposal overlaps.
C12_Witness ==
    /\ call.op = "forward" /\ ~cfg.HEAD /\ ~call.raised
    /\ Len(call.inputs[1]) = 2
    /\ call.inputs[3][1] # call.inputs[3][2]
    /\ \E i \in 1..2 : \E g \in 1..Len(call.inputs[6][i]) :
         \E b \in Range(call.calls[Len(call.calls)].arg[i]) :
             b # ZeroBox /\ IoUAtLeast(b, call.inputs[6][i][g], ROI_POSITIVE_IOU)

=============================================================================
